---- MODULE Spec2Model ----
(***************************************************************************)
(* Greek Vets Directory API (src/main.py, src/schemas.py).                 *)
(*                                                                         *)
(* The store holds two collections, "vet" and "review".  Text is modelled  *)
(* as a sequence of one-character strings so that case folding, regular    *)
(* expression search and ObjectId parsing are computed, not assumed.       *)
(* A float is modelled as an exact fraction in lowest terms.               *)
(***************************************************************************)
EXTENDS Integers, Sequences, FiniteSets, TLC

VARIABLES db, vet, review, calls, resp, defaulted

vars == <<db, vet, review, calls, resp, defaulted>>

(***************************************************************************)
(* Bounds of the model.                                                    *)
(***************************************************************************)
MaxVets == 2
MaxReviews == 2
MaxCalls == 2

Procs == 1..MaxCalls

(***************************************************************************)
(* Text.                                                                   *)
(***************************************************************************)
Lower(c) ==
    CASE c = "A" -> "a" [] c = "B" -> "b" [] c = "C" -> "c"
      [] c = "D" -> "d" [] c = "E" -> "e" [] c = "F" -> "f"
      [] c = "R" -> "r" [] OTHER -> c

Upper(c) ==
    CASE c = "a" -> "A" [] c = "b" -> "B" [] c = "c" -> "C"
      [] c = "d" -> "D" [] c = "e" -> "E" [] c = "f" -> "F"
      [] c = "r" -> "R" [] OTHER -> c

LowerStr(s) == [i \in 1..Len(s) |-> Lower(s[i])]

UpperStr(s) == [i \in 1..Len(s) |-> Upper(s[i])]

\* Plain case-insensitive substring test: what the specification calls
\* "contains".  Used only to state claims, never by the program.
Contains(s, x) ==
    \E off \in 0..(Len(s) - Len(x)) :
        \A i \in 1..Len(x) : Lower(s[off + i]) = Lower(x[i])

\* {"$regex": pat, "$options": "i"}: an unanchored, case-insensitive regular
\* expression search.  The pattern is not escaped, so "." matches any
\* character.  Patterns are drawn from literals and ".".
RegexSearch(pat, s) ==
    \E off \in 0..(Len(s) - Len(pat)) :
        \A i \in 1..Len(pat) :
            pat[i] = "." \/ Lower(pat[i]) = Lower(s[off + i])

(***************************************************************************)
(* bson.ObjectId: 12 bytes, written as 24 hexadecimal digits.  The model   *)
(* writes an identifier with OidDigits digits.                             *)
(***************************************************************************)
OidDigits == 4

HexChars ==
    {"0", "1", "2", "3", "4", "5", "6", "7", "8", "9",
     "a", "b", "c", "d", "e", "f", "A", "B", "C", "D", "E", "F"}

HexDigits == <<"a", "b", "c", "d", "e", "f">>

\* The k-th identifier the store generates for a collection.
NewOid(k) == [i \in 1..OidDigits |-> HexDigits[k]]

\* ObjectId(s): a str of that many hex digits, of either case; the value is
\* the bytes they spell, here kept as the lower-case digits.  Anything else
\* raises InvalidId.
ObjectId(s) ==
    IF Len(s) = OidDigits /\ \A i \in 1..Len(s) : s[i] \in HexChars
    THEN [ok |-> TRUE, id |-> LowerStr(s)]
    ELSE [ok |-> FALSE, id |-> <<>>]

\* str(oid): the lower-case hex digits.
Str(oid) == oid

(***************************************************************************)
(* Floats as fractions in lowest terms.                                    *)
(***************************************************************************)
RECURSIVE GCD(_, _)
GCD(a, b) == IF b = 0 THEN a ELSE GCD(b, a % b)

Frac(n, d) == [n |-> n \div GCD(n, d), d |-> d \div GCD(n, d)]

Zero == Frac(0, 1)

FracLeq(x, y) == x.n * y.d <= y.n * x.d

RECURSIVE SumRatings(_)
SumRatings(s) == IF s = <<>> THEN 0 ELSE Head(s).rating + SumRatings(Tail(s))

Min(a, b) == IF a < b THEN a ELSE b

(***************************************************************************)
(* Schemas (src/schemas.py).                                               *)
(***************************************************************************)
\* Vet: rating ge 0.0 le 5.0, reviews_count ge 0.  The request body may carry
\* both fields; they default to 0.0 and 0.
VetValid(v) ==
    /\ FracLeq(Zero, v.rating)
    /\ FracLeq(v.rating, Frac(5, 1))
    /\ v.reviews_count >= 0

\* Mutant of ReviewValid: the lower bound is off by one (ge=0).
ReviewValidFromZero(r) == r.rating >= 0 /\ r.rating <= 5

\* Review: rating is conint(ge=1, le=5).
ReviewValid(r) == r.rating >= 1 /\ r.rating <= 5

(***************************************************************************)
(* Inputs.                                                                 *)
(***************************************************************************)
IdLower == NewOid(1)
IdUpper == UpperStr(NewOid(1))
IdBad == <<"z", "z">>

\* The two spellings of one listing's identifier.
SameVetIds == {IdLower, IdUpper}

VetIdInputs == {IdLower, IdUpper, IdBad}

VetBase ==
    { [name |-> <<"A", "b">>, city |-> <<"c">>, region |-> <<"r">>,
       specialties |-> <<>>, services |-> << <<"d">> >>],
      [name |-> <<"b", ".">>, city |-> <<"C", "d">>, region |-> <<"R">>,
       specialties |-> << <<"a">> >>, services |-> <<>>] }

\* The derived fields a request may carry: the defaults, a forged pair, and
\* two pairs the schema rejects.
DerivedInputs ==
    { [rating |-> Zero, reviews_count |-> 0],
      [rating |-> Frac(9, 2), reviews_count |-> 2],
      [rating |-> Frac(6, 1), reviews_count |-> 0],
      [rating |-> Zero, reviews_count |-> 0 - 1] }

VetInputs == { b @@ d : b \in VetBase, d \in DerivedInputs }

\* One listing body with each pair of derived fields.
VetInputsOne ==
    { [name |-> <<"A", "b">>, city |-> <<"c">>, region |-> <<"r">>,
       specialties |-> <<>>, services |-> << <<"d">> >>] @@ d :
      d \in DerivedInputs }

DefaultLimit == 50

LimitInputs == {1, DefaultLimit}

\* An absent (or empty) filter is the empty text: "if city:" skips both.
CityInputs == {<<>>, <<"c">>, <<"D">>}
RegionInputs == {<<>>, <<"r">>}
QInputs == {<<>>, <<"a">>, <<"d">>, <<".">>}

(***************************************************************************)
(* Document store adapter (database.py, not part of src/: modelled from    *)
(* section 4.3 of the specification).                                      *)
(***************************************************************************)
\* create_document(collection, data): inserts and returns the new list of
\* documents; the generated id is that of the last one.
create_document(coll, data) ==
    Append(coll, [_id |-> NewOid(Len(coll) + 1)] @@ data)

\* get_documents(collection, filter, limit): every result the store may give,
\* "up to limit" of the matching documents in no defined order.  The filter
\* is given by its value on each document, a result as the set of the
\* documents' positions.
get_documents(coll, filter, limit) ==
    LET hits == {i \in DOMAIN coll : filter[i]}
    IN  {S \in SUBSET hits : Cardinality(S) = Min(limit, Cardinality(hits))}

(***************************************************************************)
(* MongoDB operations called directly by src/main.py.                      *)
(***************************************************************************)
\* db.vet.find_one({"_id": oid}): the position of the document, 0 if none.
find_one(coll, oid) ==
    IF \E i \in DOMAIN coll : coll[i]._id = oid
    THEN CHOOSE i \in DOMAIN coll : coll[i]._id = oid
    ELSE 0

\* Mutant of aggregate: the group takes {$sum: $rating} for {$avg: $rating}.
aggregate_sum(coll, vet_id) ==
    LET m == SelectSeq(coll, LAMBDA r : r.vet_id = vet_id)
    IN  IF m = <<>> THEN <<>>
        ELSE << [avg |-> Frac(SumRatings(m), 1), count |-> Len(m)] >>

\* db.review.aggregate([{$match: {vet_id}}, {$group: {_id: $vet_id,
\* avg: {$avg: $rating}, count: {$sum: 1}}}]): one group, or none when
\* nothing matches.  $match compares the stored string with vet_id.
aggregate(coll, vet_id) ==
    LET m == SelectSeq(coll, LAMBDA r : r.vet_id = vet_id)
    IN  IF m = <<>> THEN <<>>
        ELSE << [avg |-> Frac(SumRatings(m), Len(m)), count |-> Len(m)] >>

\* Mutant of update_one: the filter is dropped, every listing is set.
update_unfiltered(coll, oid, s) ==
    [i \in DOMAIN coll |->
        [coll[i] EXCEPT !.rating = s.avg, !.reviews_count = s.count]]

\* db.vet.update_one({"_id": oid}, {"$set": {rating, reviews_count}}).
update_one(coll, oid, s) ==
    [i \in DOMAIN coll |->
        IF coll[i]._id = oid
        THEN [coll[i] EXCEPT !.rating = s.avg, !.reviews_count = s.count]
        ELSE coll[i]]

(***************************************************************************)
(* State.                                                                  *)
(*   db         "ok", "none" (the handle is None: no connection was made   *)
(*              at start) or "error" (the store is failing)                *)
(*   vet        the "vet" collection, in insertion order                   *)
(*   review     the "review" collection, in insertion order                *)
(*   calls      the create_review requests being served, one per slot      *)
(*   resp       the last response sent, with the request it answers        *)
(*   defaulted  history: for each listing, whether it was created with the *)
(*              default rating and reviews_count                           *)
(***************************************************************************)
NoReview == [vet_id |-> <<>>, author_name |-> <<>>, rating |-> 0]

IdleCall ==
    [pc |-> "idle", review |-> NoReview, create_id |-> <<>>, stats |-> <<>>]

NoResp == [op |-> "none", req |-> <<>>, status |-> 0, body |-> <<>>]

\* The handle is None, or the store fails: the adapter raises, and the
\* request ends as a server error.
adapter_raises == db # "ok"

\* db.vet / db.review on a None handle raises AttributeError, and a failing
\* store makes the driver raise.
db_raises == db # "ok"

Init ==
    /\ db \in {"ok", "none"}
    /\ vet = <<>>
    /\ review = <<>>
    /\ calls = [p \in Procs |-> IdleCall]
    /\ resp = NoResp
    /\ defaulted = <<>>

(***************************************************************************)
(* The store starts or stops failing.                                      *)
(***************************************************************************)
StoreFails ==
    /\ db = "ok"
    /\ db' = "error"
    /\ UNCHANGED <<vet, review, calls, resp, defaulted>>

StoreRecovers ==
    /\ db = "error"
    /\ db' = "ok"
    /\ UNCHANGED <<vet, review, calls, resp, defaulted>>

(***************************************************************************)
(* POST /api/vets                                                          *)
(***************************************************************************)
create_vet(v) ==
    /\ Len(vet) < MaxVets
    /\ IF ~VetValid(v)
       THEN /\ resp' = [op |-> "create_vet", req |-> <<>>, status |-> 422,
                        body |-> <<>>]
            /\ UNCHANGED <<vet, defaulted>>
       ELSE IF adapter_raises
       THEN /\ resp' = [op |-> "create_vet", req |-> <<>>, status |-> 500,
                        body |-> <<>>]
            /\ UNCHANGED <<vet, defaulted>>
       ELSE /\ vet' = create_document(vet, v)
            /\ resp' = [op |-> "create_vet", req |-> <<>>, status |-> 200,
                        body |-> Str(vet'[Len(vet')]._id)]
            /\ defaulted' = Append(defaulted,
                                   v.rating = Zero /\ v.reviews_count = 0)
    /\ UNCHANGED <<db, review, calls>>

(***************************************************************************)
(* GET /api/vets                                                           *)
(***************************************************************************)
\* filter_dict of list_vets: the clauses present are joined by AND.
VetFilter(city, region, q, d) ==
    /\ (city # <<>>) => RegexSearch(city, d.city)
    /\ (region # <<>>) => RegexSearch(region, d.region)
    /\ (q # <<>>) =>
          \/ RegexSearch(q, d.name)
          \/ \E k \in DOMAIN d.services : RegexSearch(q, d.services[k])
          \/ \E k \in DOMAIN d.specialties : RegexSearch(q, d.specialties[k])
          \/ RegexSearch(q, d.city)

list_vets(city, region, q, limit) ==
    /\ IF adapter_raises
       THEN resp' = [op |-> "list_vets",
                     req |-> [city |-> city, region |-> region, q |-> q,
                              limit |-> limit],
                     status |-> 500, body |-> {}]
       ELSE \E S \in get_documents(vet,
                        [i \in DOMAIN vet |->
                            VetFilter(city, region, q, vet[i])], limit) :
               resp' = [op |-> "list_vets",
                        req |-> [city |-> city, region |-> region, q |-> q,
                                 limit |-> limit],
                        status |-> 200,
                        body |-> {Str(vet[i]._id) : i \in S}]
    /\ UNCHANGED <<db, vet, review, calls, defaulted>>

(***************************************************************************)
(* GET /api/vets/{vet_id}                                                  *)
(***************************************************************************)
get_vet(vet_id) ==
    /\ LET o == ObjectId(vet_id)
       IN  IF ~o.ok \/ db_raises
           THEN resp' = [op |-> "get_vet", req |-> vet_id, status |-> 400,
                         body |-> <<>>]
           ELSE IF find_one(vet, o.id) = 0
           THEN resp' = [op |-> "get_vet", req |-> vet_id, status |-> 404,
                         body |-> <<>>]
           ELSE resp' = [op |-> "get_vet", req |-> vet_id, status |-> 200,
                         body |-> vet[find_one(vet, o.id)]]
    /\ UNCHANGED <<db, vet, review, calls, defaulted>>

(***************************************************************************)
(* GET /api/vets/{vet_id}/reviews                                          *)
(***************************************************************************)
list_reviews(vet_id, limit) ==
    /\ IF adapter_raises
       THEN resp' = [op |-> "list_reviews",
                     req |-> [vet_id |-> vet_id, limit |-> limit],
                     status |-> 500, body |-> {}]
       ELSE \E S \in get_documents(review,
                        [i \in DOMAIN review |->
                            review[i].vet_id = vet_id], limit) :
               resp' = [op |-> "list_reviews",
                        req |-> [vet_id |-> vet_id, limit |-> limit],
                        status |-> 200,
                        body |-> {Str(review[i]._id) : i \in S}]
    /\ UNCHANGED <<db, vet, review, calls, defaulted>>

(***************************************************************************)
(* POST /api/reviews.  The handler is not atomic: the insert, the          *)
(* aggregation and the update of the listing are separate store calls.     *)
(***************************************************************************)
Reply(status, body) ==
    [op |-> "create_review", req |-> <<>>, status |-> status, body |-> body]

\* The request arrives: the body is validated against Review before the
\* handler runs.  A request is served in the first free slot.
Request(p, r) ==
    /\ calls[p].pc = "idle"
    /\ \A q \in Procs : q < p => calls[q].pc # "idle"
    /\ IF ~ReviewValid(r)
       THEN /\ resp' = [Reply(422, <<>>) EXCEPT !.req = r]
            /\ UNCHANGED calls
       ELSE /\ Len(review) + Cardinality({q \in Procs : calls[q].pc = "insert"})
                 < MaxReviews
            /\ calls' = [calls EXCEPT ![p] =
                            [IdleCall EXCEPT !.pc = "insert", !.review = r]]
            /\ UNCHANGED resp
    /\ UNCHANGED <<db, vet, review, defaulted>>

\* create_id = create_document("review", review)
Insert(p) ==
    /\ calls[p].pc = "insert"
    /\ IF adapter_raises
       THEN /\ calls' = [calls EXCEPT ![p] = IdleCall]
            /\ resp' = Reply(500, <<>>)
            /\ UNCHANGED review
       ELSE /\ review' = create_document(review, calls[p].review)
            /\ calls' = [calls EXCEPT ![p].pc = "aggregate",
                                      ![p].create_id =
                                          Str(review'[Len(review')]._id)]
            /\ UNCHANGED resp
    /\ UNCHANGED <<db, vet, defaulted>>

\* stats = list(db.review.aggregate(pipeline)); any exception is swallowed
\* and the handler returns create_id.
Aggregate(p) ==
    /\ calls[p].pc = "aggregate"
    /\ IF db_raises
       THEN /\ calls' = [calls EXCEPT ![p] = IdleCall]
            /\ resp' = Reply(200, calls[p].create_id)
       ELSE LET stats == aggregate(review, calls[p].review.vet_id)
            IN  IF stats # <<>>
                THEN /\ calls' = [calls EXCEPT ![p].pc = "update",
                                               ![p].stats = stats]
                     /\ UNCHANGED resp
                ELSE /\ calls' = [calls EXCEPT ![p] = IdleCall]
                     /\ resp' = Reply(200, calls[p].create_id)
    /\ UNCHANGED <<db, vet, review, defaulted>>

\* Mutant of Update: no try/except, the exception ends the request as a
\* server error.
UpdateUnguarded(p) ==
    /\ calls[p].pc = "update"
    /\ LET o == ObjectId(calls[p].review.vet_id)
       IN  IF ~o.ok \/ db_raises
           THEN /\ UNCHANGED vet
                /\ resp' = Reply(500, <<>>)
           ELSE /\ vet' = update_one(vet, o.id, calls[p].stats[1])
                /\ resp' = Reply(200, calls[p].create_id)
    /\ calls' = [calls EXCEPT ![p] = IdleCall]
    /\ UNCHANGED <<db, review, defaulted>>

\* db.vet.update_one({"_id": ObjectId(vet_id)}, {"$set": ...}); any
\* exception is swallowed.  Then return create_id.
Update(p) ==
    /\ calls[p].pc = "update"
    /\ LET o == ObjectId(calls[p].review.vet_id)
       IN  IF ~o.ok \/ db_raises
           THEN UNCHANGED vet
           ELSE vet' = update_one(vet, o.id, calls[p].stats[1])
    /\ calls' = [calls EXCEPT ![p] = IdleCall]
    /\ resp' = Reply(200, calls[p].create_id)
    /\ UNCHANGED <<db, review, defaulted>>

(***************************************************************************)
(* Specifications.                                                         *)
(*   Spec        create_review requests served concurrently for one        *)
(*               listing, the store failing at will                        *)
(*   SpecSeq     create_review requests served one at a time, with every   *)
(*               rating around the accepted range                          *)
(*   SpecApi     every operation, create_review served one at a time       *)
(*   SpecSearch  listings and searches                                     *)
(***************************************************************************)
\* Spec takes the two extreme ratings, SpecSeq every rating around the
\* accepted range, SpecApi the one rating 5.
ExtremeRatings == {1, 5}

RatingInputs == 0..6

VetInputsDefault ==
    {v \in VetInputsOne : v.rating = Zero /\ v.reviews_count = 0}

Next ==
    \/ StoreFails
    \/ StoreRecovers
    \/ \E v \in VetInputsDefault : create_vet(v)
    \/ \E p \in Procs, id \in SameVetIds, n \in ExtremeRatings :
          Request(p, [vet_id |-> id, author_name |-> <<"e">>, rating |-> n])
    \/ \E p \in Procs : Insert(p)
    \/ \E p \in Procs : Aggregate(p)
    \/ \E p \in Procs : Update(p)

Spec == Init /\ [][Next]_vars

NextSeq ==
    \/ StoreFails
    \/ StoreRecovers
    \/ \E v \in VetInputsDefault : create_vet(v)
    \/ \E id \in SameVetIds, n \in RatingInputs :
          Request(1, [vet_id |-> id, author_name |-> <<"e">>, rating |-> n])
    \/ Insert(1)
    \/ Aggregate(1)
    \/ Update(1)

SpecSeq == Init /\ [][NextSeq]_vars

NextApi ==
    \/ StoreFails
    \/ StoreRecovers
    \/ \E v \in VetInputsOne : create_vet(v)
    \/ \E id \in VetIdInputs :
          Request(1, [vet_id |-> id, author_name |-> <<"e">>, rating |-> 5])
    \/ Insert(1)
    \/ Aggregate(1)
    \/ Update(1)
    \/ list_vets(<<>>, <<>>, <<".">>, DefaultLimit)
    \/ \E id \in VetIdInputs : get_vet(id)
    \/ \E id \in VetIdInputs, n \in LimitInputs : list_reviews(id, n)

SpecApi == Init /\ [][NextApi]_vars

NextSearch ==
    \/ StoreFails
    \/ StoreRecovers
    \/ \E v \in VetInputs : create_vet(v)
    \/ \E c \in CityInputs, g \in RegionInputs, q \in QInputs,
          n \in LimitInputs : list_vets(c, g, q, n)

SpecSearch == Init /\ [][NextSearch]_vars

(***************************************************************************)
(* Vocabulary of the claims.                                               *)
(***************************************************************************)
\* A review's vet_id names listing d: it is d's identifier, in the store's
\* encoding (the comparison update_one makes).
RefersTo(vet_id, d) == ObjectId(vet_id).ok /\ ObjectId(vet_id).id = d._id

\* The stored reviews of the listing with identifier oid.
ReviewsOf(oid) ==
    SelectSeq(review,
              LAMBDA r : ObjectId(r.vet_id).ok /\ ObjectId(r.vet_id).id = oid)

Mean(s) == Frac(SumRatings(s), Len(s))

\* Steps of a create_review request.
AggregateDone(p) == calls[p].pc = "aggregate" /\ calls'[p].pc = "update"

UpdateReturns(p) == calls[p].pc = "update" /\ calls'[p].pc = "idle"

UpdateApplied(p) ==
    /\ UpdateReturns(p)
    /\ ObjectId(calls[p].review.vet_id).ok
    /\ ~db_raises

\* A response was sent in this step by operation op.
Answered(op) == resp' # resp /\ resp'.op = op

(***************************************************************************)
(* C1.  A create_review request that runs its three steps (insert,         *)
(* aggregate, update) successfully and alone leaves the listing it updates *)
(* with rating = the mean and reviews_count = the number of ALL stored     *)
(* reviews of that listing, whatever the fields held before.               *)
(* Checked under SpecSeq, where requests are served one at a time.         *)
(* The code refutes it: the aggregate is grouped by the raw vet_id string  *)
(* while the listing is found through ObjectId(vet_id), which reads hex    *)
(* digits of either case.                                                  *)
(***************************************************************************)
C1_AggregateIsMeanOfAll ==
    [][\A i \in DOMAIN vet :
          (UpdateApplied(1) /\ RefersTo(calls[1].review.vet_id, vet[i]))
          => /\ vet'[i].rating = Mean(ReviewsOf(vet[i]._id))
             /\ vet'[i].reviews_count = Len(ReviewsOf(vet[i]._id))]_vars

(***************************************************************************)
(* C2.  Concurrent create_review requests for one listing: last write      *)
(* wins.  Every update overwrites the listing's rating and reviews_count   *)
(* with the aggregate its own request computed, so after all requests the  *)
(* fields are those of the update that ran last; and the aggregate a       *)
(* request computes covers its own review and every review of the listing  *)
(* inserted before the aggregation ran.                                    *)
(* The code refutes the second half, by the defect of C1.  Checked under   *)
(* Spec.                                                                   *)
(***************************************************************************)
C2_LastWriteCoversEarlier ==
    [][\A p \in Procs, i \in DOMAIN vet :
          RefersTo(calls[p].review.vet_id, vet[i])
          => /\ AggregateDone(p)
                => LET all == ReviewsOf(vet[i]._id)
                   IN  /\ \E k \in DOMAIN all : all[k]._id = calls[p].create_id
                       /\ calls'[p].stats[1].avg = Mean(all)
                       /\ calls'[p].stats[1].count = Len(all)
             /\ UpdateApplied(p)
                => /\ vet'[i].rating = calls[p].stats[1].avg
                   /\ vet'[i].reviews_count = calls[p].stats[1].count]_vars

(***************************************************************************)
(* C3.  When the insert of create_review succeeded and the aggregation or  *)
(* the update fails (malformed vet_id, no listing with that id, store      *)
(* error), the request still answers 200 with the new review's id, the     *)
(* review stays stored under its vet_id, no listing changes, and           *)
(* list_reviews(vet_id) returns every review stored under vet_id (for a    *)
(* limit not below their number; the default is 50).                       *)
(* Checked under SpecApi.                                                  *)
(***************************************************************************)
StepFails(p) ==
    \/ calls[p].pc = "aggregate" /\ db_raises
    \/ /\ calls[p].pc = "update"
       /\ LET o == ObjectId(calls[p].review.vet_id)
          IN  ~o.ok \/ db_raises \/ find_one(vet, o.id) = 0

Stored(id, vet_id) ==
    \E i \in DOMAIN review : review[i]._id = id /\ review[i].vet_id = vet_id

C3_SwallowedFailure ==
    [][/\ \A p \in Procs :
             (StepFails(p) /\ calls'[p].pc # calls[p].pc)
             => /\ calls'[p].pc = "idle"
                /\ resp' = Reply(200, calls[p].create_id)
                /\ vet' = vet
                /\ review' = review
                /\ Stored(calls[p].create_id, calls[p].review.vet_id)
       /\ (Answered("list_reviews") /\ resp'.status = 200)
          => LET hits == {i \in DOMAIN review :
                             review[i].vet_id = resp'.req.vet_id}
             IN  Cardinality(hits) <= resp'.req.limit
                 => resp'.body = {Str(review[i]._id) : i \in hits}]_vars

\* Every request has returned, one of them with a malformed vet_id (its
\* update raised InvalidId), and list_reviews returned that review.
C3_Witness ==
    /\ resp.op = "list_reviews"
    /\ resp.status = 200
    /\ resp.req.vet_id = IdBad
    /\ resp.body # {}
    /\ \A p \in Procs : calls[p].pc = "idle"

(***************************************************************************)
(* C4.  In every reachable state a listing without any stored review       *)
(* naming it has rating 0.0 and reviews_count 0.                           *)
(* The code refutes it: create_vet stores the rating and reviews_count     *)
(* the request body carries.  Checked under SpecApi.                       *)
(***************************************************************************)
C4_NoReviewsMeansZero ==
    \A i \in DOMAIN vet :
        ReviewsOf(vet[i]._id) = <<>>
        => vet[i].rating = Zero /\ vet[i].reviews_count = 0

(***************************************************************************)
(* C5.  get_vet answers 400 (invalid id) exactly when the id cannot be     *)
(* parsed, and 404 for every well-formed id that matches no listing.       *)
(* The code refutes it, by the defect of C6: with the store unavailable a  *)
(* well-formed id is answered 400.  Checked under SpecApi.                 *)
(***************************************************************************)
C5_InvalidIdIffMalformed ==
    [][Answered("get_vet")
       => /\ (resp'.status = 400) <=> ~ObjectId(resp'.req).ok
          /\ (ObjectId(resp'.req).ok
              /\ find_one(vet, ObjectId(resp'.req).id) = 0)
             => resp'.status = 404]_vars

(***************************************************************************)
(* C6.  An operation invoked while the store is unavailable (no handle, or *)
(* the store failing) ends as a server error (500): never another error,   *)
(* never a success.  Stated for the requests that pass validation and, for *)
(* get_vet, carry a well-formed id.                                        *)
(* The code refutes it: get_vet catches every exception of the lookup and  *)
(* answers 400 "Invalid vet id".  Checked under SpecApi.                   *)
(***************************************************************************)
C6_UnavailableIsServerError ==
    [][/\ (/\ db # "ok"
           /\ \/ Answered("create_vet")
              \/ Answered("list_vets")
              \/ Answered("list_reviews")
              \/ Answered("get_vet") /\ ObjectId(resp'.req).ok)
          => resp'.status = 500
       /\ \A p \in Procs :
             (db # "ok" /\ calls[p].pc = "insert" /\ calls'[p].pc # "insert")
             => resp' = Reply(500, <<>>)]_vars

(***************************************************************************)
(* C7.  create_review with a rating outside 1..5 is answered 422 before    *)
(* any store access: nothing is stored and no listing changes; a request   *)
(* is refused only for such a rating, so every rating from 1 to 5 is       *)
(* accepted, and the review is stored with the rating given.               *)
(* Checked under SpecSeq, which requests every rating of RatingInputs.     *)
(***************************************************************************)
C7_RatingRange ==
    [][/\ (Answered("create_review") /\ resp'.status = 422)
          => /\ resp'.req.rating \notin 1..5
             /\ UNCHANGED <<vet, review, calls>>
       /\ \A p \in Procs :
             /\ (calls[p].pc = "idle" /\ calls'[p].pc = "insert")
                => /\ calls'[p].review.rating \in 1..5
                   /\ UNCHANGED <<vet, review>>
             /\ (calls[p].pc = "insert" /\ calls'[p].pc = "aggregate")
                => /\ review' = Append(review, [_id |-> calls'[p].create_id]
                                                 @@ calls[p].review)
                   /\ vet' = vet]_vars

\* Ratings 1 and 5 are stored, and a request with rating 6 was just refused.
C7_Witness ==
    /\ resp.op = "create_review"
    /\ resp.status = 422
    /\ resp.req.rating = 6
    /\ \E i \in DOMAIN review : review[i].rating = 1
    /\ \E i \in DOMAIN review : review[i].rating = 5

(***************************************************************************)
(* C8.  list_vets returns only listings that satisfy every filter given,   *)
(* city and region being case-insensitive substring tests on their field   *)
(* and q one on name, city, some specialty or some service; an absent      *)
(* filter constrains nothing; when at most limit listings match, exactly   *)
(* those are returned.                                                     *)
(* The code refutes it: the filters are unescaped regular expressions.     *)
(***************************************************************************)
SubstringFilter(req, d) ==
    /\ (req.city # <<>>) => Contains(d.city, req.city)
    /\ (req.region # <<>>) => Contains(d.region, req.region)
    /\ (req.q # <<>>) =>
          \/ Contains(d.name, req.q)
          \/ Contains(d.city, req.q)
          \/ \E k \in DOMAIN d.specialties : Contains(d.specialties[k], req.q)
          \/ \E k \in DOMAIN d.services : Contains(d.services[k], req.q)

C8_SearchIsSubstringConjunction ==
    [][(Answered("list_vets") /\ resp'.status = 200)
       => LET hits == {i \in DOMAIN vet : SubstringFilter(resp'.req, vet[i])}
              ids == {Str(vet[i]._id) : i \in hits}
          IN  /\ resp'.body \subseteq ids
              /\ Cardinality(hits) <= resp'.req.limit => resp'.body = ids]_vars

(***************************************************************************)
(* C9.  The store changes in two ways only: create_vet and create_review   *)
(* add one record, and create_review may overwrite rating and              *)
(* reviews_count of the one listing its vet_id names.  No record is        *)
(* deleted, no review is modified, no other field and no other listing     *)
(* changes, and list_vets, get_vet and list_reviews leave the store as it  *)
(* is.  Checked under SpecApi.                                             *)
(***************************************************************************)
SameButDerived(d, e) ==
    [d EXCEPT !.rating = e.rating, !.reviews_count = e.reviews_count] = e

C9_Frame ==
    [][/\ Len(vet') >= Len(vet)
       /\ Len(review') >= Len(review)
       /\ Len(vet') + Len(review') <= Len(vet) + Len(review) + 1
       /\ \A i \in DOMAIN review : review'[i] = review[i]
       /\ \A i \in DOMAIN vet : SameButDerived(vet[i], vet'[i])
       /\ \A i \in DOMAIN vet :
             vet'[i] # vet[i]
             => \E p \in Procs :
                   /\ UpdateReturns(p)
                   /\ RefersTo(calls[p].review.vet_id, vet[i])
       /\ Len(vet') > Len(vet) => Answered("create_vet")
       /\ Len(review') > Len(review)
          => \E p \in Procs :
                calls[p].pc = "insert" /\ calls'[p].pc = "aggregate"
       /\ (Answered("list_vets") \/ Answered("get_vet")
           \/ Answered("list_reviews"))
          => vet' = vet /\ review' = review]_vars

\* Two listings; a review overwrote the derived fields of the first, the
\* second is as created, and a read was answered.
C9_Witness ==
    /\ Len(vet) = 2
    /\ defaulted[1]
    /\ vet[1].reviews_count = 1
    /\ vet[2].rating = Frac(9, 2)
    /\ Len(review) = 2
    /\ resp.op = "get_vet"
    /\ resp.status = 200

(***************************************************************************)
(* C10.  For a listing created with the default rating and reviews_count,  *)
(* in every reachable state (requests interleaved, failures swallowed):    *)
(* 0 <= reviews_count <= the number of stored reviews naming the listing,  *)
(* and rating is 0.0, with reviews_count 0, or lies in [1.0, 5.0].         *)
(* Checked under Spec, where the requests are interleaved.                 *)
(***************************************************************************)
C10_DerivedFieldsInRange ==
    \A i \in DOMAIN vet :
        defaulted[i]
        => /\ 0 <= vet[i].reviews_count
           /\ vet[i].reviews_count <= Len(ReviewsOf(vet[i]._id))
           /\ \/ vet[i].rating = Zero /\ vet[i].reviews_count = 0
              \/ /\ FracLeq(Frac(1, 1), vet[i].rating)
                 /\ FracLeq(vet[i].rating, Frac(5, 1))

\* A listing whose count lags behind its reviews while a request is under
\* way, its rating a mean of the reviews seen.
C10_Witness ==
    \E i \in DOMAIN vet :
        /\ defaulted[i]
        /\ vet[i].reviews_count = 1
        /\ vet[i].rating = Frac(5, 1)
        /\ Len(ReviewsOf(vet[i]._id)) = 2
        /\ \E p \in Procs : calls[p].pc = "update"

====
